---- MODULE Spec2Model ----
(***************************************************************************)
(* Model of github.com/ockendenjo/handler:                                 *)
(*   - the SQS batch handler (GetSQSHandler, process, asyncWaitForResult)  *)
(*     with the per-item story loggers it splits off the parent context;   *)
(*   - the metrics aggregator (setup, Start, startCollector, startWriter,  *)
(*     flush, Shutdown).                                                   *)
(* Goroutines are processes; a channel send/receive on an unbuffered       *)
(* channel is one joint step; timers fire at any moment after they are     *)
(* armed (wall-clock time is abstracted to the order of events).           *)
(***************************************************************************)
EXTENDS Integers, Sequences, FiniteSets, TLC

\* ------------------------------------------------------------ bounds
MaxRecords == 2
MaxSubmit == 3
MaxSinkErrors == 1
MaxOps == 4
MaxChain == 3
MaxStages == 3

\* program constants
InputChanCap == 100
SummaryMax == 100

Kinds == {"ok", "errRetry", "errNonRetry", "panic", "badjson"}
\* receipt handles are unique within a batch: record i carries handle i
Handles == 1..MaxRecords
Namespaces == {"foo", "bar"}
\* the loggers of one invocation: the parent context's and the Split children's
Children == {"c1", "c2"}
LoggerIds == {"parent"} \cup Children

VARIABLES
    \* --- SQS handler: inputs
    hasDeadline,      \* ctx.Deadline() reports a deadline
    records,          \* event.Records: sequence of [ReceiptHandle, kind]
    addLoggerParams,  \* GetSQSHandler was given a non-nil addLoggerParams
    \* --- SQS handler: state
    pc,               \* position of the handler goroutine
    parentLogger,     \* ctx.GetLogger() of the invocation context
    routines,         \* []*routineData
    task,             \* position of each `go process(...)` goroutine
    waiter,           \* position of each wg.Go(asyncWaitForResult) goroutine
    collected,        \* number of iterations done by the "collect" loop
    failures,         \* []events.SQSBatchItemFailure being built
    response,         \* returned events.SQSEventResponse.BatchItemFailures
    retErr,           \* returned error
    slog,             \* records written to the underlying slog sink
    crashed,          \* the Go runtime aborted the process (fatal error)
    subCtx,           \* the context derived by context.WithDeadline
    \* --- SQS handler: history
    observed,         \* what each waiter's select received
    logCalls,         \* number of closeLog() calls per item
    \* --- metrics aggregator
    inputChan,        \* m.inputChan: the buffered measurements, oldest first
    data,             \* m.data: namespace -> list of measurements
    lock,             \* m.lock: "free" or the goroutine that holds it
    run,              \* m.run
    collector,        \* the startCollector goroutine: position and `input`
    writer,           \* position of the startWriter goroutine
    shut,             \* position of the goroutine that calls Shutdown
    frame,            \* the flush() call of the writer and of Shutdown
    sink,             \* the PutMetricData calls made, in order
    \* --- metrics aggregator: history
    sent,             \* namespace of every measurement sent on inputChan
    appended,         \* ids the collector has appended to m.data
    sentBefore,       \* number of completed sends when Shutdown was called
    producer,         \* the goroutine that executes `m.inputChan <- metric`
    workload,         \* what the producer is going to send, and when
    \* --- story loggers driven directly through their methods
    loggers,          \* the *Logger objects: the parent and its Split children
    written,          \* records written to the shared underlying slog.Logger
    errorCalled,      \* history: Error or Errorf has been called on the logger
    lastOp,           \* history: the last method call and its receiver
    ops,              \* history: number of method calls made
    story,            \* history: the calls made on the logger of one task
    \* --- the summary Log() builds from a list of stage descriptions
    stagesIn,         \* s.stages: the descriptions, each a sequence of bytes
    summary,          \* the message Log() passes to slog
    \* --- IsErrorRetryable applied to an error
    errIn,            \* the error value: its Unwrap chain, outermost first
    result            \* what IsErrorRetryable(err) returned

sqsVars == <<hasDeadline, records, addLoggerParams, pc, parentLogger, routines,
             task, waiter, collected, failures, response, retErr, slog, crashed,
             subCtx, observed, logCalls>>
metricVars == <<inputChan, data, lock, run, collector, writer, shut, frame,
                sink, sent, appended, sentBefore, producer, workload>>
summaryVars == <<stagesIn, summary>>
loggerVars == <<loggers, written, errorCalled, lastOp, ops, story, summaryVars>>
errVars == <<errIn, result>>
vars == <<sqsVars, metricVars, loggerVars, errVars>>

\* ------------------------------------------------------------ story logger
EmptyMap == [k \in {} |-> ""]

\* m with every key of n set to n's value (Go map assignment, last write wins)
MapSet(m, n) ==
    [k \in (DOMAIN m) \cup (DOMAIN n) |-> IF k \in DOMAIN n THEN n[k] ELSE m[k]]

newStoryLogger ==
    [stages |-> <<>>, params |-> EmptyMap, lineParams |-> EmptyMap,
     disabled |-> FALSE, errorLevel |-> FALSE, combinedMode |-> FALSE]

\* an AddStage that puts the new stage first
AddStageFirst(s, description) == [s EXCEPT !.stages = <<description>> \o @]

AddStage(s, description) == [s EXCEPT !.stages = Append(@, description)]

AddParam(s, key, value) == [s EXCEPT !.params = MapSet(@, (key :> value))]

With(s, args) == [s EXCEPT !.params = MapSet(@, args)]

WithLineParams(s, args) == [s EXCEPT !.lineParams = MapSet(@, args)]

disableOutput(s) == [s EXCEPT !.disabled = TRUE]

\* the line "msg; k='v'; ..." kept as its parts
formatMsgAndArgs(msg, args) == [msg |-> msg, args |-> args]

legacyLog(s, msg, args) ==
    LET s1 == WithLineParams(s, args)
        s2 == AddStage(s1, formatMsgAndArgs(msg, s1.lineParams))
    IN  [s2 EXCEPT !.lineParams = EmptyMap]

\* Info/Error in combined mode only change the logger; otherwise they write
\* one line to the slog sink and leave the logger alone.
Info(s, msg, args) == IF s.combinedMode THEN legacyLog(s, msg, args) ELSE s

InfoOut(s, msg, args) ==
    IF s.combinedMode THEN <<>>
    ELSE <<[level |-> "INFO", msg |-> formatMsgAndArgs(msg, args),
            stages |-> <<>>, params |-> s.params,
            combined |-> FALSE]>>

Error(s, msg, args) ==
    IF s.combinedMode THEN [legacyLog(s, msg, args) EXCEPT !.errorLevel = TRUE]
    ELSE s

ErrorOut(s, msg, args) ==
    IF s.combinedMode THEN <<>>
    ELSE <<[level |-> "ERROR", msg |-> formatMsgAndArgs(msg, args),
            stages |-> <<>>, params |-> EmptyMap,
            combined |-> FALSE]>>

Infof(s, msg) == Info(s, msg, EmptyMap)

Errorf(s, msg) == Error(s, msg, EmptyMap)

Warn(s, msg, args) == IF s.combinedMode THEN legacyLog(s, msg, args) ELSE s

WarnOut(s, msg, args) ==
    IF s.combinedMode THEN <<>>
    ELSE <<[level |-> "WARN", msg |-> formatMsgAndArgs(msg, args),
            stages |-> <<>>, params |-> EmptyMap,
            combined |-> FALSE]>>

\* Debug does nothing in combined mode and never changes the logger
Debug(s, msg, args) == s

DebugOut(s, msg, args) ==
    IF s.combinedMode THEN <<>>
    ELSE <<[level |-> "DEBUG", msg |-> formatMsgAndArgs(msg, args),
            stages |-> <<>>, params |-> EmptyMap,
            combined |-> FALSE]>>

DisableCombinedMode(s) == [s EXCEPT !.combinedMode = FALSE]

\* a Log() that always emits at Info level
LogInfoOnly(s) ==
    IF s.disabled THEN <<>>
    ELSE IF ~s.combinedMode THEN <<>>
    ELSE IF Len(s.stages) = 0 /\ DOMAIN s.params = {} THEN <<>>
    ELSE <<[level |-> "INFO",
            msg |-> "summary", stages |-> s.stages, params |-> s.params,
            combined |-> TRUE]>>

\* the records Log() writes to the slog sink (none or one)
Log(s) ==
    IF s.disabled THEN <<>>
    ELSE IF ~s.combinedMode THEN <<>>
    ELSE IF Len(s.stages) = 0 /\ DOMAIN s.params = {} THEN <<>>
    ELSE <<[level |-> IF s.errorLevel THEN "ERROR" ELSE "INFO",
            msg |-> "summary", stages |-> s.stages, params |-> s.params,
            combined |-> TRUE]>>

\* a Split whose child starts from the parent's logger state
SplitInherit(parent) == [parent EXCEPT !.combinedMode = TRUE]

\* a Split that forgets to switch the child to combined mode
SplitNotCombined(parent) == newStoryLogger

\* Context.Split: the child's story logger
Split(parent) == [newStoryLogger EXCEPT !.combinedMode = TRUE]

\* ------------------------------------------------------------ SQS handler
N == Len(records)
Items == 1..N

\* An error value is its Unwrap chain, outermost first (nil is the empty
\* chain).  Each error of the chain implements RetryableError or not
\* (retryable: "yes" / "no" for what IsRetryable() reports, "none" when it does
\* not implement it) and has an Unwrap() error method or not; only the last
\* error of a chain can lack Unwrap.
ErrorKinds == [retryable : {"none", "yes", "no"}, unwrap : BOOLEAN]

\* a walk that goes on past a RetryableError that reports false
RECURSIVE IsErrorRetryableAny(_)
IsErrorRetryableAny(e) ==
    IF e = <<>> THEN FALSE
    ELSE IF Head(e).retryable = "yes" THEN TRUE
    ELSE IF ~Head(e).unwrap THEN FALSE
    ELSE IsErrorRetryableAny(Tail(e))

\* part_004:7-20  IsErrorRetryable
RECURSIVE IsErrorRetryable(_)
IsErrorRetryable(e) ==
    IF e = <<>> THEN FALSE
    ELSE IF Head(e).retryable # "none" THEN Head(e).retryable = "yes"
    ELSE IF ~Head(e).unwrap THEN FALSE
    ELSE IsErrorRetryable(Tail(e))

\* the error ProcessSQSEvent returns for a record of each kind: nil, a
\* RetryableError reporting true, or a plain errors.New error
ReturnedError(kind) ==
    CASE kind = "errRetry" -> <<[retryable |-> "yes", unwrap |-> FALSE]>>
      [] kind = "errNonRetry" -> <<[retryable |-> "none", unwrap |-> FALSE]>>
      [] OTHER -> <<>>

\* a task that sends true whatever happened
SignalAlwaysTrue(kind) == TRUE

\* a task that reports a retryable error as a success
SignalRetryableAsSuccess(kind) == kind \in {"ok", "errRetry"}

\* sqs.go:48, 80, 83  the value the task sends once the processor has returned
\* or panicked: true only when it returned nil
Signal(kind) == kind = "ok"

\* The handler goroutine is inside the collect loop's iteration for item i:
\* it reads and writes routines[i].handlerCtx's logger without any
\* synchronisation with item i's task goroutine.
DispatcherUses(i) == pc = "collect" /\ collected + 1 = i

\* outcomes of a task's logger access: it completes, or -- when it overlaps
\* the handler goroutine's unsynchronised use of the same maps -- the runtime
\* may abort the process ("concurrent map iteration and map write").
RaceOutcomes(i, access) == IF access /\ DispatcherUses(i) THEN BOOLEAN ELSE {FALSE}

\* a flush() call that is not running
NoFrame == [pc |-> "idle", mapCopy |-> [ns \in Namespaces |-> <<>>],
            todo |-> {}, sentSince |-> FALSE]

\* metrics.go:22-32  setup
InitAggregator ==
    /\ inputChan = <<>>
    /\ data = [ns \in Namespaces |-> <<>>]
    /\ lock = "free"
    /\ run = FALSE
    /\ collector = [pc |-> "none", input |-> 0]
    /\ writer = "none"
    /\ shut = "idle"
    /\ frame = [p \in {"writer", "shutdown"} |-> NoFrame]
    /\ sink = <<>>
    /\ sent = <<>>
    /\ appended = {}
    /\ sentBefore = 0
    /\ producer = [pc |-> "idle", metric |-> 0]

\* the producer of part_006 (Test_Metrics): up to MaxSubmit measurements of
\* either namespace, sent at any moment
InitMetricsIdle ==
    /\ InitAggregator
    /\ workload = [Namespaces |-> Namespaces, count |-> MaxSubmit,
                   afterShutdown |-> FALSE]

\* what has been called on a logger so far: the messages of the lines and
\* stages in call order, the last value written to each param key, the line
\* params that wait for the next line, and the key/value pairs the last line
\* was called to carry
NoStory == [stages |-> <<>>, params |-> EmptyMap, pending |-> EmptyMap,
            line |-> EmptyMap]

\* no summary is built on its own
InitSummaryIdle ==
    /\ stagesIn = <<>>
    /\ summary = [done |-> FALSE, text |-> <<>>]

\* no story logger is driven directly
InitLoggerIdle ==
    /\ InitSummaryIdle
    /\ story = NoStory
    /\ loggers = <<>>
    /\ written = <<>>
    /\ errorCalled = <<>>
    /\ lastOp = [name |-> "none", target |-> "none"]
    /\ ops = 0

\* no error is classified on its own
InitErrIdle ==
    /\ errIn = <<>>
    /\ result = "none"

InitSQS ==
    /\ hasDeadline \in BOOLEAN
    /\ addLoggerParams \in BOOLEAN
    /\ \E n \in 0..MaxRecords :
         records \in {r \in [1..n -> [ReceiptHandle : Handles, kind : Kinds]] :
                         \A i \in 1..n : r[i].ReceiptHandle = i}
    /\ pc = "entry"
    /\ parentLogger = newStoryLogger
    /\ routines = <<>>
    /\ task = [i \in Items |-> "none"]
    /\ waiter = [i \in Items |-> "none"]
    /\ collected = 0
    /\ failures = <<>>
    /\ response = <<>>
    /\ retErr = "none"
    /\ slog = <<>>
    /\ crashed = FALSE
    /\ subCtx = "none"
    /\ observed = [i \in Items |-> "none"]
    /\ logCalls = [i \in Items |-> 0]

\* a derived context that is created already cancelled
WithDeadlineCancelled == "canceled"

\* sqs.go:93-94  subCtx, cancel := context.WithDeadline(ctx, deadline): the
\* context every item's task is handed (through ctx.Split(subCtx)); its Done
\* channel is open
WithDeadline == "active"

\* sqs.go:95  the deferred cancel() when the handler returns: closes Done
\* unless the context is done already
cancel(c) == IF c = "active" THEN "canceled" ELSE c

\* an entry that does not look at hasDeadline
InvokeUnchecked ==
    /\ pc = "entry" /\ ~crashed
    /\ parentLogger' = disableOutput(parentLogger)
    /\ pc' = "spawn"
    /\ subCtx' = WithDeadline
    /\ UNCHANGED <<metricVars, loggerVars, errVars>>
    /\ UNCHANGED <<hasDeadline, records, addLoggerParams, routines, task, waiter,
                   collected, failures, response, retErr, slog, crashed, observed,
                   logCalls>>

\* sqs.go:86-95  entry of the returned handler: disableOutput, deadline check
Invoke ==
    /\ pc = "entry" /\ ~crashed
    /\ parentLogger' = disableOutput(parentLogger)
    /\ IF ~hasDeadline
         THEN /\ pc' = "done"
              /\ response' = <<>>
              /\ retErr' = "context must have a deadline set"
              /\ UNCHANGED subCtx
         ELSE /\ pc' = "spawn"
              /\ subCtx' = WithDeadline
              /\ UNCHANGED <<response, retErr>>
    /\ UNCHANGED <<metricVars, loggerVars, errVars>>
    /\ UNCHANGED <<hasDeadline, records, addLoggerParams, routines, task, waiter,
                   collected, failures, slog, crashed, observed, logCalls>>

\* sqs.go:99-112  one iteration of the loop that starts a task per record
Spawn ==
    /\ pc = "spawn" /\ ~crashed
    /\ Len(routines) < N
    /\ LET i == Len(routines) + 1 IN
         /\ routines' = Append(routines,
               [SuccessChannel |-> "nosender",
                Record |-> records[i],
                TimeoutTimer |-> "armed",
                failed |-> FALSE,
                timedOut |-> FALSE,
                handlerCtx |-> Split(parentLogger)])
         /\ task' = [task EXCEPT ![i] = "start"]
    /\ UNCHANGED <<metricVars, loggerVars, errVars>>
    /\ UNCHANGED subCtx
    /\ UNCHANGED <<hasDeadline, records, addLoggerParams, pc, parentLogger, waiter,
                   collected, failures, response, retErr, slog, crashed, observed,
                   logCalls>>

\* a timeout branch that marks the item failed as well
TimedOutMarksFailed(r) ==
    [r EXCEPT !.timedOut = TRUE, !.failed = TRUE, !.TimeoutTimer = "drained"]

\* sqs.go:159-160  the waiter's flag update on the timeout branch
TimedOut(r) == [r EXCEPT !.timedOut = TRUE, !.TimeoutTimer = "drained"]

\* the runtime timer of routines[i].TimeoutTimer expires.  A waiter parked in
\* its select is woken on the timeout branch at once; otherwise the value
\* stays available on TimeoutTimer.C
TimerFire(i) ==
    /\ ~crashed
    /\ i \in 1..Len(routines)
    /\ routines[i].TimeoutTimer = "armed"
    /\ IF waiter[i] = "parked"
         THEN /\ routines' = [routines EXCEPT ![i] = TimedOut(@)]
              /\ waiter' = [waiter EXCEPT ![i] = "done"]
              /\ observed' = [observed EXCEPT ![i] = "timeout"]
         ELSE /\ routines' = [routines EXCEPT ![i].TimeoutTimer = "fired"]
              /\ UNCHANGED <<waiter, observed>>
    /\ UNCHANGED <<metricVars, loggerVars, errVars>>
    /\ UNCHANGED subCtx
    /\ UNCHANGED <<hasDeadline, records, addLoggerParams, pc, parentLogger, task,
                   collected, failures, response, retErr, slog, crashed,
                   logCalls>>

\* a receive branch that marks the wrong results as failed
ReceiveResultInverted(r, success) ==
    [r EXCEPT !.SuccessChannel = "nosender",
              !.TimeoutTimer = IF @ = "armed" THEN "stopped" ELSE @,
              !.failed = IF success THEN TRUE ELSE @]

\* sqs.go:154-158  the waiter's flag update on the receive branch
ReceiveResult(r, success) ==
    [r EXCEPT !.SuccessChannel = "nosender",
              !.TimeoutTimer = IF @ = "armed" THEN "stopped" ELSE @,
              !.failed = IF ~success THEN TRUE ELSE @]

\* the task blocks in `successChannel <- v`
BlockedOnSend(r, v) == [r EXCEPT !.SuccessChannel = IF v THEN "true" ELSE "false"]

\* The task of item i, its routine now being r, executes `successChannel <- v`
\* (sqs.go:48, 55, 80, 83).  A waiter parked in its select receives the value
\* at once and the task returns; otherwise the task blocks in the send.
Send(i, r, v) ==
    /\ IF waiter[i] = "parked"
         THEN /\ routines' = [routines EXCEPT ![i] = ReceiveResult(r, v)]
              /\ waiter' = [waiter EXCEPT ![i] = "done"]
              /\ task' = [task EXCEPT ![i] = "done"]
              /\ observed' = [observed EXCEPT ![i] = IF v THEN "true" ELSE "false"]
         ELSE /\ routines' = [routines EXCEPT ![i] = BlockedOnSend(r, v)]
              /\ task' = [task EXCEPT ![i] = "send"]
              /\ UNCHANGED <<waiter, observed>>

\* bytes.TrimSpace on a line given as its characters
RECURSIVE TrimLeft(_)
TrimLeft(line) ==
    IF line # <<>> /\ Head(line) = " " THEN TrimLeft(Tail(line)) ELSE line

RECURSIVE TrimRight(_)
TrimRight(line) ==
    IF line # <<>> /\ line[Len(line)] = " "
      THEN TrimRight(SubSeq(line, 1, Len(line) - 1))
      ELSE line

TrimSpace(line) == TrimRight(TrimLeft(line))

\* sqs.go:139-149  the lines of the stack, trimmed, the empty ones dropped
RECURSIVE getStackTraceAsSlice(_)
getStackTraceAsSlice(stack) ==
    IF stack = <<>> THEN <<>>
    ELSE LET strPart == TrimSpace(Head(stack))
             rest == getStackTraceAsSlice(Tail(stack))
         IN  IF strPart # <<>> THEN <<strPart>> \o rest ELSE rest

\* debug.Stack() split at "\n": header, indented frames, a line of blanks
\* and the empty line after the final newline
DebugStack ==
    << <<"g", " ", "1">>, <<"f", "(", ")">>, <<" ", "a", ".", "g", "o", " ">>,
       <<" ", " ">>, <<>> >>

\* sqs.go:41-69  process: json.Unmarshal (on an error: log it and send false),
\* then the logger params (addLoggerParams stands for any param added before
\* the processor runs: a non-nil addLoggerParams or LOG_INPUT_EVENT=true)
processDecode(i) ==
    /\ ~crashed
    /\ i \in 1..Len(routines)
    /\ task[i] = "start"
    /\ LET r == routines[i]
           logger == r.handlerCtx
           kind == r.Record.kind
       IN
         IF kind = "badjson"
           THEN /\ Send(i, [r EXCEPT !.handlerCtx =
                               Error(logger, "JSON unmarshal returned error",
                                     ("error" :> "err") @@ ("body" :> "body"))],
                        FALSE)
                /\ crashed' \in RaceOutcomes(i, TRUE)
           ELSE /\ routines' = [routines EXCEPT ![i].handlerCtx =
                      IF addLoggerParams THEN With(logger, ("id" :> "v")) ELSE logger]
                /\ task' = [task EXCEPT ![i] = "proc"]
                /\ crashed' \in RaceOutcomes(i, addLoggerParams)
                /\ UNCHANGED <<waiter, observed>>
    /\ UNCHANGED <<metricVars, loggerVars, errVars>>
    /\ UNCHANGED subCtx
    /\ UNCHANGED <<hasDeadline, records, addLoggerParams, pc, parentLogger,
                   collected, failures, response, retErr, slog, logCalls>>

\* sqs.go:71-83 and the deferred recover of sqs.go:44-50: ProcessSQSEvent
\* returns nil, returns an error, or panics; the task logs and sends its result
processReturn(i) ==
    /\ ~crashed
    /\ i \in 1..Len(routines)
    /\ task[i] = "proc"
    /\ LET r == routines[i]
           logger == r.handlerCtx
           kind == r.Record.kind
           logged ==
             CASE kind = "ok" -> logger
               [] kind = "panic" ->
                    Error(With(logger, ("panicStack" :>
                                         getStackTraceAsSlice(DebugStack))),
                          "Goroutine panicked", EmptyMap)
               [] IsErrorRetryable(ReturnedError(kind)) ->
                    Info(AddParam(logger, "body", "body"),
                         "Processing returned error", EmptyMap)
               [] OTHER ->
                    Error(AddParam(logger, "body", "body"),
                          "Processing returned error", EmptyMap)
       IN
         /\ Send(i, [r EXCEPT !.handlerCtx = logged], Signal(kind))
         /\ crashed' \in RaceOutcomes(i, kind # "ok")
    /\ UNCHANGED <<metricVars, loggerVars, errVars>>
    /\ UNCHANGED subCtx
    /\ UNCHANGED <<hasDeadline, records, addLoggerParams, pc, parentLogger,
                   collected, failures, response, retErr, slog, logCalls>>

\* sqs.go:115-118  one iteration of the loop that starts a waiter per routine
StartWaiter ==
    /\ pc = "spawn" /\ ~crashed
    /\ Len(routines) = N
    /\ \E i \in Items :
         /\ waiter[i] = "none"
         /\ \A j \in 1..(i - 1) : waiter[j] # "none"
         /\ waiter' = [waiter EXCEPT ![i] = "select"]
    /\ UNCHANGED <<metricVars, loggerVars, errVars>>
    /\ UNCHANGED subCtx
    /\ UNCHANGED <<hasDeadline, records, addLoggerParams, pc, parentLogger,
                   routines, task, collected, failures, response, retErr, slog,
                   crashed, observed, logCalls>>

\* the branches of the waiter's select that are ready
ReceiveReady(i) == task[i] = "send"
TimeoutReady(i) == routines[i].TimeoutTimer = "fired"

\* sqs.go:153-158  the waiter reaches its select and takes
\* `success := <-routine.SuccessChannel`, which is ready (whether or not the
\* timeout branch is ready too); the task's blocked send completes and the
\* task returns
asyncWaitForResultReceive(i) ==
    /\ ~crashed
    /\ i \in Items
    /\ waiter[i] = "select"
    /\ ReceiveReady(i)
    /\ routines' = [routines EXCEPT ![i] =
          ReceiveResult(routines[i], routines[i].SuccessChannel = "true")]
    /\ observed' = [observed EXCEPT ![i] = routines[i].SuccessChannel]
    /\ task' = [task EXCEPT ![i] = "done"]
    /\ waiter' = [waiter EXCEPT ![i] = "done"]
    /\ UNCHANGED <<metricVars, loggerVars, errVars>>
    /\ UNCHANGED subCtx
    /\ UNCHANGED <<hasDeadline, records, addLoggerParams, pc, parentLogger,
                   collected, failures, response, retErr, slog, crashed,
                   logCalls>>

\* sqs.go:153, 159-160  the waiter reaches its select and takes
\* `<-routine.TimeoutTimer.C`, which is ready (whether or not the receive
\* branch is ready too)
asyncWaitForResultTimeout(i) ==
    /\ ~crashed
    /\ i \in Items
    /\ waiter[i] = "select"
    /\ TimeoutReady(i)
    /\ routines' = [routines EXCEPT ![i] = TimedOut(@)]
    /\ observed' = [observed EXCEPT ![i] = "timeout"]
    /\ waiter' = [waiter EXCEPT ![i] = "done"]
    /\ UNCHANGED <<metricVars, loggerVars, errVars>>
    /\ UNCHANGED subCtx
    /\ UNCHANGED <<hasDeadline, records, addLoggerParams, pc, parentLogger, task,
                   collected, failures, response, retErr, slog, crashed,
                   logCalls>>

\* sqs.go:153  the waiter reaches its select with no branch ready and parks
asyncWaitForResultPark(i) ==
    /\ ~crashed
    /\ i \in Items
    /\ waiter[i] = "select"
    /\ ~ReceiveReady(i) /\ ~TimeoutReady(i)
    /\ waiter' = [waiter EXCEPT ![i] = "parked"]
    /\ UNCHANGED <<metricVars, loggerVars, errVars>>
    /\ UNCHANGED subCtx
    /\ UNCHANGED <<hasDeadline, records, addLoggerParams, pc, parentLogger,
                   routines, task, collected, failures, response, retErr, slog,
                   crashed, observed, logCalls>>

\* a join that returns on the first completion
JoinedAny == \E i \in Items : waiter[i] = "done"

\* wg.Wait() may return
Joined == \A i \in Items : waiter[i] = "done"

\* sqs.go:121-122  wg.Wait() returns once every waiter has returned
Wait ==
    /\ pc = "spawn" /\ ~crashed
    /\ Len(routines) = N
    /\ \A i \in Items : waiter[i] # "none"
    /\ Joined
    /\ pc' = "collect"
    /\ UNCHANGED <<metricVars, loggerVars, errVars>>
    /\ UNCHANGED subCtx
    /\ UNCHANGED <<hasDeadline, records, addLoggerParams, parentLogger, routines,
                   task, waiter, collected, failures, response, retErr, slog,
                   crashed, observed, logCalls>>

\* a collect loop that forgets the timed-out items
ListedFailedOnly(r) == r.failed

\* the item of routine r is appended to the failures (sqs.go:128)
Listed(r) == r.failed \/ r.timedOut

\* the logger of routine r after the collect loop's Info calls (sqs.go:124-131)
CollectLogger(r) ==
    LET l1 == IF r.timedOut
                THEN Info(r.handlerCtx, "Message processing timed out", EmptyMap)
                ELSE r.handlerCtx
    IN  IF Listed(r)
          THEN Info(l1, "Message returned to queue for retry", EmptyMap)
          ELSE l1

\* sqs.go:123-133  one iteration of the collect loop, closeLog included
\* (Context.finalize: the context carries no metrics, then storyLogger.Log())
Collect ==
    /\ pc = "collect" /\ ~crashed
    /\ collected < N
    /\ LET i == collected + 1
           r == routines[i]
           logger == CollectLogger(r)
       IN
         /\ failures' = IF Listed(r)
                          THEN Append(failures, r.Record.ReceiptHandle)
                          ELSE failures
         /\ routines' = [routines EXCEPT ![i].handlerCtx = logger]
         /\ slog' = slog \o [k \in 1..Len(Log(logger)) |->
                               [item |-> i, rec |-> Log(logger)[k]]]
         /\ logCalls' = [logCalls EXCEPT ![i] = @ + 1]
         /\ collected' = i
    /\ UNCHANGED <<metricVars, loggerVars, errVars>>
    /\ UNCHANGED subCtx
    /\ UNCHANGED <<hasDeadline, records, addLoggerParams, pc, parentLogger, task,
                   waiter, response, retErr, crashed, observed>>

\* sqs.go:135  return the response with a nil error
Return ==
    /\ pc = "collect" /\ ~crashed
    /\ collected = N
    /\ pc' = "done"
    /\ response' = failures
    /\ retErr' = "nil"
    /\ subCtx' = cancel(subCtx)
    /\ UNCHANGED <<metricVars, loggerVars, errVars>>
    /\ UNCHANGED <<hasDeadline, records, addLoggerParams, parentLogger, routines,
                   task, waiter, collected, failures, slog, crashed, observed,
                   logCalls>>

\* sqs.go:94  the deadline of subCtx (the effective deadline, the same instant
\* the items' timers are set to) passes: the context is cancelled with
\* DeadlineExceeded
ContextDeadline ==
    /\ ~crashed
    /\ subCtx = "active"
    /\ subCtx' = "deadlineExceeded"
    /\ UNCHANGED <<metricVars, loggerVars, errVars>>
    /\ UNCHANGED <<hasDeadline, records, addLoggerParams, pc, parentLogger,
                   routines, task, waiter, collected, failures, response, retErr,
                   slog, crashed, observed, logCalls>>

\* ------------------------------------------------------------ SQS claims
Returned == pc = "done" /\ retErr = "nil"
InResponse(i) == \E k \in 1..Len(response) : response[k] = records[i].ReceiptHandle
FailingKinds == {"errRetry", "errNonRetry", "panic", "badjson"}
RecordsOf(i) == {k \in 1..Len(slog) : slog[k].item = i}

\* C1: the returned BatchItemFailures hold only receipt handles of input
\* records, each at most once, and a handle only of a record whose processing
\* errored, failed decoding, panicked, or whose waiter took the timeout
\* branch; a record whose waiter received true is never listed.
C1_FailuresSound ==
    Returned =>
      /\ \A k \in 1..Len(response) :
           \E i \in Items : response[k] = records[i].ReceiptHandle
      /\ \A k, l \in 1..Len(response) : k # l => response[k] # response[l]
      /\ \A i \in Items :
           /\ InResponse(i) =>
                (records[i].kind \in FailingKinds \/ observed[i] = "timeout")
           /\ observed[i] = "true" => ~InResponse(i)

C1_Witness ==
    /\ Returned /\ N = 2 /\ Len(response) = 1
    /\ \E i, j \in Items :
         /\ observed[i] = "true" /\ ~InResponse(i)
         /\ observed[j] = "false" /\ InResponse(j)

\* C2 (as claimed): if every item's processor returns nil and every task is
\* ready to send its completion signal before its timer fires (the batches and
\* the timers of SpecInTime), the handler returns an empty BatchItemFailures
\* list.
C2_AllInTimeEmpty == Returned => response = <<>>

\* C3 (as claimed): whether B is listed depends only on B's own result and
\* B's own completion-vs-timer race; no item's error, panic or timeout keeps
\* another task from being started, makes the handler return an error, or
\* crashes the process.
C3_Isolation ==
    /\ ~crashed
    /\ (pc = "done" /\ hasDeadline) => retErr = "nil"
    /\ pc \in {"collect", "done"} /\ hasDeadline =>
         \A b \in Items : task[b] # "none"
    /\ Returned =>
         \A b \in Items :
           /\ InResponse(b) <=> observed[b] \in {"false", "timeout"}
           /\ observed[b] = "false" => records[b].kind \in FailingKinds
           /\ observed[b] = "true" => records[b].kind = "ok"

C5_NoDeadlineFailsFast ==
    ~hasDeadline =>
      /\ pc \in {"entry", "done"}
      /\ routines = <<>>
      /\ \A i \in Items : task[i] = "none" /\ waiter[i] = "none" /\ logCalls[i] = 0
      /\ slog = <<>> /\ failures = <<>> /\ response = <<>>
      /\ pc = "done" => retErr = "context must have a deadline set"

C5_Witness == ~hasDeadline /\ pc = "done" /\ N = 2 /\ retErr # "nil"

\* C10 (as claimed): exactly one combined record is emitted per item of an
\* invocation that got past validation, whatever the item logged.
C10_OneRecordPerItem ==
    Returned => \A i \in Items : Cardinality(RecordsOf(i)) = 1

\* C10 (amended): per item the dispatcher calls Log() exactly once and at most
\* one combined record is emitted: exactly one when the item's logger holds a
\* stage or a param at that moment (always so for a listed item), none for an
\* item that succeeded without accumulating any; the disabled flag of the
\* parent logger does not suppress the children's records.
C10_OneRecordIfAnythingLogged ==
    Returned =>
      /\ parentLogger.disabled
      /\ \A i \in Items :
           /\ logCalls[i] = 1
           /\ Cardinality(RecordsOf(i)) =
                IF Len(routines[i].handlerCtx.stages) > 0
                     \/ DOMAIN routines[i].handlerCtx.params # {}
                  THEN 1 ELSE 0
           /\ InResponse(i) => Cardinality(RecordsOf(i)) = 1

C10_Witness ==
    /\ Returned /\ N = 2
    /\ Cardinality(RecordsOf(1)) = 0 /\ observed[1] = "true"
    /\ Cardinality(RecordsOf(2)) = 1 /\ observed[2] = "timeout"


\* C13 (as claimed): a panic in an item's processing is recovered in its task:
\* the process does not crash; once the task has recovered, the item's logger
\* holds the stack trace under "panicStack" as non-empty trimmed lines and is
\* at error level; the item's combined record has Error severity; and the item
\* is listed in BatchItemFailures.
C13_PanicRecovered ==
    /\ (\A i \in Items : records[i].kind = "panic") => ~crashed
    /\ \A i \in 1..Len(routines) :
         records[i].kind = "panic" =>
           /\ task[i] \in {"send", "done"} =>
                LET logger == routines[i].handlerCtx IN
                  /\ logger.errorLevel
                  /\ "panicStack" \in DOMAIN logger.params
                  /\ \A k \in 1..Len(logger.params["panicStack"]) :
                       LET line == logger.params["panicStack"][k] IN
                         line # <<>> /\ Head(line) # " " /\ line[Len(line)] # " "
           /\ Returned =>
                /\ InResponse(i)
                /\ Cardinality(RecordsOf(i)) = 1
                /\ \A k \in RecordsOf(i) : slog[k].rec.level = "ERROR"

\* the stage a logger accumulated for message msg
HasStage(logger, msg) ==
    \E k \in 1..Len(logger.stages) : logger.stages[k].msg = msg

\* C14: an item whose processor returns an error is listed in
\* BatchItemFailures whether the error is retryable or not, so swapping the
\* classification leaves the response unchanged; the task logs the same
\* message and body in both cases and only the severity differs: the logger
\* is put at error level exactly for the non-retryable error.
C14_ClassificationObservabilityOnly ==
    \A i \in 1..Len(routines) :
      records[i].kind \in {"errRetry", "errNonRetry"} =>
        /\ Returned => InResponse(i)
        /\ observed[i] \in {"none", "false", "timeout"}
        /\ task[i] \in {"send", "done"} =>
             LET logger == routines[i].handlerCtx IN
               /\ HasStage(logger, "Processing returned error")
               /\ "body" \in DOMAIN logger.params
               /\ logger.errorLevel <=> records[i].kind = "errNonRetry"

C14_Witness ==
    /\ Returned /\ N = 2
    /\ records[1].kind = "errRetry" /\ records[2].kind = "errNonRetry"
    /\ observed[1] = "false" /\ observed[2] = "false"
    /\ InResponse(1) /\ InResponse(2)
    /\ \A k \in RecordsOf(1) : slog[k].rec.level = "INFO"
    /\ \A k \in RecordsOf(2) : slog[k].rec.level = "ERROR"
    /\ RecordsOf(1) # {} /\ RecordsOf(2) # {}

ErrorOutcomes == {"panic", "badjson", "errNonRetry"}

\* the stages hold a line logged with Error or Errorf by the task of a record
\* of this kind (a returned error is logged with Errorf only when it is not
\* retryable)
ErrorCalled(stages, kind) ==
    \E k \in 1..Len(stages) :
      \/ stages[k].msg \in {"JSON unmarshal returned error", "Goroutine panicked"}
      \/ stages[k].msg = "Processing returned error" /\ kind = "errNonRetry"

C21_ExactlyOneOutcome ==
    pc \in {"collect", "done"} =>
      \A i \in 1..Len(routines) :
        LET r == routines[i] IN
          /\ ~(r.failed /\ r.timedOut)
          /\ observed[i] \in {"true", "false", "timeout"}
          /\ observed[i] = "true" <=> (~r.failed /\ ~r.timedOut)
          /\ observed[i] = "false" <=> r.failed
          /\ observed[i] = "timeout" <=> r.timedOut

C21_Witness ==
    /\ pc = "collect" /\ N = 2 /\ collected = 0
    /\ routines[1].failed /\ ~routines[1].timedOut
    /\ routines[2].timedOut /\ ~routines[2].failed

\* the task of item i has logger calls still to make: the decode error, the
\* params added before the processor runs, or the error or panic of the
\* processor
TaskStillWrites(i) ==
    \/ task[i] = "start" /\ (addLoggerParams \/ records[i].kind # "ok")
    \/ task[i] = "proc" /\ records[i].kind # "ok"

\* C22 (as claimed): a child logger is owned by its task while the task runs:
\* the dispatcher is never adding stages to an item's child logger or calling
\* its closeLog while that item's task still has logger calls to make; in
\* particular not for an item that timed out.
C22_ChildOwnedByTask ==
    \A i \in 1..Len(routines) : DispatcherUses(i) => ~TaskStillWrites(i)

\* the value the task of item i has to publish
Expected(i) == IF records[i].kind = "ok" THEN "true" ELSE "false"

\* C24: every task attempts exactly one send on its completion channel: false
\* after a decode error, a processor error or a recovered panic, true after a
\* success.  Before the attempt nothing is on the channel; the attempt carries
\* the value of the task's path; once the value is received the task has
\* ended and never sends again; a task that decoded its record attempts the
\* send only after the processor has run.
C24_OneSignalPerTask ==
    /\ [](\A i \in 1..Len(routines) :
            /\ task[i] \in {"start", "proc"} =>
                 /\ routines[i].SuccessChannel = "nosender"
                 /\ observed[i] \in {"none", "timeout"}
            /\ task[i] = "send" => routines[i].SuccessChannel = Expected(i)
            /\ task[i] = "done" =>
                 /\ observed[i] = Expected(i)
                 /\ routines[i].SuccessChannel = "nosender")
    /\ [][\A i \in 1..Len(routines) :
            /\ task[i] = "start" /\ task'[i] # "start" =>
                 IF records[i].kind = "badjson"
                   THEN task'[i] \in {"send", "done"}
                   ELSE task'[i] = "proc"
            /\ task[i] = "proc" => task'[i] \in {"proc", "send", "done"}
            /\ task[i] = "send" =>
                 \/ task'[i] = "send"
                      /\ routines'[i].SuccessChannel = routines[i].SuccessChannel
                 \/ task'[i] = "done"
                      /\ observed'[i] = routines[i].SuccessChannel
            /\ task[i] = "done" => task'[i] = "done"]_vars

C24_Witness ==
    /\ N = 2
    /\ records[1].kind = "panic" /\ task[1] = "done" /\ observed[1] = "false"
    /\ records[2].kind = "ok" /\ task[2] = "send" /\ observed[2] = "timeout"
    /\ routines[2].SuccessChannel = "true"

\* the failed/timedOut flags of the routines
Flags == [i \in 1..Len(routines) |->
            <<routines[i].failed, routines[i].timedOut>>]

\* C25: join barrier.  The dispatcher is in its collect loop, has appended to
\* the failure list, has finalized a child context or has returned only when
\* every waiter has resolved; a routine's flags are written only by the step
\* in which its own waiter resolves, hence never after the join; and the
\* failure list is written only by the dispatcher's collect loop.
C25_JoinBarrier ==
    /\ []((\/ pc = "collect"
           \/ Returned
           \/ collected > 0
           \/ failures # <<>>
           \/ \E i \in Items : logCalls[i] > 0)
          => /\ Len(routines) = N
             /\ \A i \in Items : waiter[i] = "done")
    /\ [][/\ \A i \in 1..Len(routines) :
               Flags'[i] # Flags[i] => waiter[i] # "done" /\ waiter'[i] = "done"
          /\ pc \in {"collect", "done"} => Flags' = Flags
          /\ failures' # failures => pc = "collect" /\ collected' = collected + 1
         ]_vars

C25_Witness ==
    /\ pc = "collect" /\ N = 2 /\ collected = 1
    /\ failures = <<1>> /\ logCalls[1] = 1 /\ logCalls[2] = 0
    /\ routines[1].failed /\ routines[2].timedOut
    /\ task[2] \in {"start", "proc"}

\* what a record whose body does not decode does to itself: the processor is
\* never invoked for it, its task signals false, and it is listed
DecodeFailureContained ==
    \A i \in 1..Len(routines) :
      records[i].kind = "badjson" =>
        /\ task[i] # "proc"
        /\ task[i] = "send" => routines[i].SuccessChannel = "false"
        /\ task[i] = "done" => observed[i] = "false"
        /\ observed[i] # "true"
        /\ Returned => InResponse(i)

\* C30 (as claimed): a record whose body cannot be decoded never reaches the
\* processor, its task signals failure and its receipt handle is listed; the
\* other records are unaffected: in a batch where the only errors are decode
\* failures the process does not crash, and every record that decodes is
\* listed exactly when its own waiter timed out.
C30_DecodeFailure ==
    /\ DecodeFailureContained
    /\ (~addLoggerParams /\ \A i \in Items : records[i].kind \in {"badjson", "ok"})
         => /\ ~crashed
            /\ Returned =>
                 \A j \in Items :
                   records[j].kind = "ok" =>
                     (InResponse(j) <=> observed[j] = "timeout")

NextSQS ==
    \/ Invoke
    \/ Spawn
    \/ StartWaiter
    \/ Wait
    \/ Collect
    \/ Return
    \/ \E i \in 1..MaxRecords :
         \/ TimerFire(i)
         \/ processDecode(i)
         \/ processReturn(i)
         \/ asyncWaitForResultReceive(i)
         \/ asyncWaitForResultTimeout(i)
         \/ asyncWaitForResultPark(i)

Init == InitSQS /\ InitMetricsIdle /\ InitLoggerIdle /\ InitErrIdle

Spec == Init /\ [][NextSQS]_vars

\* The scheduler runs every runnable goroutine and the runtime fires every
\* armed timer: the handler goroutine's steps, the timers and the waiters'
\* selects are weakly fair.  Nothing is assumed of the tasks: a processor may
\* never return.
FairSpecSQS ==
    /\ Init /\ [][NextSQS]_vars
    /\ WF_vars(Invoke) /\ WF_vars(Spawn) /\ WF_vars(StartWaiter)
    /\ WF_vars(Wait) /\ WF_vars(Collect) /\ WF_vars(Return)
    /\ \A i \in 1..MaxRecords :
         /\ WF_vars(TimerFire(i))
         /\ WF_vars(asyncWaitForResultReceive(i) \/ asyncWaitForResultTimeout(i)
                       \/ asyncWaitForResultPark(i))

\* The handler on batches whose processors all return nil and whose tasks are
\* all ready to send before the effective deadline is reached: a timer fires
\* only once its item's task is in its send.
InitInTime ==
    /\ Init
    /\ hasDeadline
    /\ \A i \in Items : records[i].kind = "ok"

TimerFireAfterReady(i) ==
    /\ i \in 1..Len(routines)
    /\ task[i] = "send"
    /\ TimerFire(i)

NextInTime ==
    \/ Invoke
    \/ Spawn
    \/ StartWaiter
    \/ Wait
    \/ Collect
    \/ Return
    \/ \E i \in 1..MaxRecords :
         \/ TimerFireAfterReady(i)
         \/ processDecode(i)
         \/ processReturn(i)
         \/ asyncWaitForResultReceive(i)
         \/ asyncWaitForResultTimeout(i)
         \/ asyncWaitForResultPark(i)

SpecInTime == InitInTime /\ [][NextInTime]_vars

\* The handler together with the timer of the derived context.  ContextDeadline
\* changes subCtx only, and the handler reads subCtx nowhere but in cancel():
\* it is explored here, on batches of fewer kinds, and left out of NextSQS.
InitContext ==
    /\ Init
    /\ hasDeadline /\ ~addLoggerParams
    /\ \A i \in Items : records[i].kind \in {"ok", "errNonRetry"}

NextContext == NextSQS \/ ContextDeadline

SpecContext == InitContext /\ [][NextContext]_vars

\* C15 (as claimed): no cancellation is delivered to a timed-out task: from
\* the moment an item is marked timed out, also after the handler has
\* returned, the context handed to its task is not cancelled.
C15_NoCancellation ==
    \A i \in 1..Len(routines) : routines[i].timedOut => subCtx = "active"

\* C6 (as claimed): once the deadline check has passed, the handler eventually
\* returns a response with a nil error, whatever the processors do.
C6_EventuallyReturns == (pc = "spawn") ~> Returned

\* C31 (as claimed): every task whose processor call has returned or panicked,
\* and which is therefore in its single send on the unbuffered completion
\* channel, eventually completes that send and terminates (unless the runtime
\* has aborted the whole process), also when its waiter has already taken the
\* timeout branch.
C31_TaskTerminates ==
    \A i \in 1..MaxRecords :
        (i \in 1..Len(routines) /\ task[i] = "send")
          ~> (crashed \/ (i \in 1..Len(routines) /\ task[i] = "done"))

\* ------------------------------------------------------------ metrics aggregator
Flushers == {"writer", "shutdown"}
EmptyData == [ns \in Namespaces |-> <<>>]

\* a send on inputChan has completed: every flush() call entered before it
\* records that a send followed its call
SendCompleted(f) ==
    [p \in Flushers |->
       IF f[p].pc = "idle" THEN f[p] ELSE [f[p] EXCEPT !.sentSince = TRUE]]

\* metrics.go:59-76  the MetricDatum of an input: the namespace is dropped
convertInput(input) == [MetricName |-> input.id]

\* metrics.go:39-43  Start
Start ==
    /\ collector.pc = "none"
    /\ run' = TRUE
    /\ collector' = [collector EXCEPT !.pc = "select"]
    /\ writer' = "sleep"
    /\ UNCHANGED <<inputChan, data, lock, shut, frame, sink, sent, appended,
                   sentBefore>>
    /\ UNCHANGED <<sqsVars, loggerVars, errVars>>
    /\ UNCHANGED <<producer, workload>>

\* `m.inputChan <- metric` by a producer (as in Test_Metrics, whose single
\* goroutine also calls Shutdown): a collector parked in its select receives
\* the value at once; otherwise the value is buffered while the channel has
\* room, and the producer blocks in the send when it is full
inputChanSend(ns) ==
    /\ producer.pc = "idle"
    /\ ns \in workload.Namespaces
    /\ Len(sent) < workload.count
    /\ workload.afterShutdown => shut = "returned"
    /\ LET input == [id |-> Len(sent) + 1, Namespace |-> ns] IN
         IF collector.pc = "parked"
           THEN /\ collector' = [pc |-> "lock", input |-> input]
                /\ sent' = Append(sent, ns)
                /\ frame' = SendCompleted(frame)
                /\ UNCHANGED <<inputChan, producer>>
           ELSE IF Len(inputChan) < InputChanCap
           THEN /\ inputChan' = Append(inputChan, input)
                /\ sent' = Append(sent, ns)
                /\ frame' = SendCompleted(frame)
                /\ UNCHANGED <<collector, producer>>
           ELSE /\ producer' = [pc |-> "blocked", metric |-> input]
                /\ UNCHANGED <<inputChan, collector, sent, frame>>
    /\ UNCHANGED <<data, lock, run, writer, shut, sink, appended,
                   sentBefore, workload>>
    /\ UNCHANGED <<sqsVars, loggerVars, errVars>>

\* metrics.go:46-48  the collector reaches its select and takes
\* `input := <-m.inputChan`, which is ready (whether or not stopChan is too);
\* the value of a producer blocked in its send goes into the freed slot and
\* that send completes
collectorReceive ==
    /\ collector.pc = "select"
    /\ inputChan # <<>>
    /\ collector' = [pc |-> "lock", input |-> Head(inputChan)]
    /\ IF producer.pc = "blocked"
         THEN /\ inputChan' = Append(Tail(inputChan), producer.metric)
              /\ sent' = Append(sent, producer.metric.Namespace)
              /\ producer' = [pc |-> "idle", metric |-> 0]
              /\ frame' = SendCompleted(frame)
         ELSE /\ inputChan' = Tail(inputChan)
              /\ UNCHANGED <<sent, producer, frame>>
    /\ UNCHANGED <<data, lock, run, writer, shut, sink, appended,
                   sentBefore, workload>>
    /\ UNCHANGED <<sqsVars, loggerVars, errVars>>

\* metrics.go:46-47  the collector reaches its select with no branch ready
\* and parks
collectorPark ==
    /\ collector.pc = "select"
    /\ inputChan = <<>>
    /\ shut # "sendstop"
    /\ collector' = [collector EXCEPT !.pc = "parked"]
    /\ UNCHANGED <<inputChan, data, lock, run, writer, shut, frame, sink, sent,
                   appended, sentBefore>>
    /\ UNCHANGED <<sqsVars, loggerVars, errVars>>
    /\ UNCHANGED <<producer, workload>>

\* metrics.go:49  m.lock.Lock()
collectorLock ==
    /\ collector.pc = "lock"
    /\ lock = "free"
    /\ lock' = "collector"
    /\ collector' = [collector EXCEPT !.pc = "append"]
    /\ UNCHANGED <<inputChan, data, run, writer, shut, frame, sink, sent,
                   appended, sentBefore>>
    /\ UNCHANGED <<sqsVars, loggerVars, errVars>>
    /\ UNCHANGED <<producer, workload>>

\* metrics.go:50-52  append to the namespace's list, m.lock.Unlock()
collectorAppend ==
    /\ collector.pc = "append"
    /\ LET input == collector.input IN
         /\ data' = [data EXCEPT ![input.Namespace] = Append(@, convertInput(input))]
         /\ appended' = appended \cup {input.id}
    /\ lock' = "free"
    /\ collector' = [pc |-> "select", input |-> 0]
    /\ UNCHANGED <<inputChan, run, writer, shut, frame, sink, sent, sentBefore>>
    /\ UNCHANGED <<sqsVars, loggerVars, errVars>>
    /\ UNCHANGED <<producer, workload>>

\* the frame of a flush() call that has just been entered
NewFrame == [NoFrame EXCEPT !.pc = "lock"]

\* metrics.go:34-36  Shutdown is called and executes `m.stopChan <- true`: a
\* collector parked in its select takes the value at once and returns, and
\* Shutdown enters flush(); otherwise Shutdown blocks in the send
ShutdownCall ==
    /\ shut = "idle"
    /\ sentBefore' = Len(sent)
    /\ IF collector.pc = "parked"
         THEN /\ collector' = [collector EXCEPT !.pc = "stopped"]
              /\ shut' = "flush"
              /\ frame' = [frame EXCEPT !["shutdown"] = NewFrame]
         ELSE /\ shut' = "sendstop"
              /\ UNCHANGED <<collector, frame>>
    /\ UNCHANGED <<inputChan, data, lock, run, writer, sink, sent, appended>>
    /\ UNCHANGED <<sqsVars, loggerVars, errVars>>
    /\ UNCHANGED <<producer, workload>>

\* metrics.go:46, 53-54 with metrics.go:35-36  the collector reaches its
\* select and takes `<-m.stopChan`, which is ready (whether or not inputChan
\* is too), and returns; Shutdown's send completes and it enters flush()
collectorStop ==
    /\ collector.pc = "select"
    /\ shut = "sendstop"
    /\ collector' = [collector EXCEPT !.pc = "stopped"]
    /\ shut' = "flush"
    /\ frame' = [frame EXCEPT !["shutdown"] = NewFrame]
    /\ UNCHANGED <<inputChan, data, lock, run, writer, sink, sent, appended,
                   sentBefore>>
    /\ UNCHANGED <<sqsVars, loggerVars, errVars>>
    /\ UNCHANGED <<producer, workload>>

\* metrics.go:79-81  the writer finds m.run set, sleeps, and enters flush()
writerWake ==
    /\ writer = "sleep"
    /\ run
    /\ writer' = "flush"
    /\ frame' = [frame EXCEPT !["writer"] = NewFrame]
    /\ UNCHANGED <<inputChan, data, lock, run, collector, shut, sink, sent,
                   appended, sentBefore>>
    /\ UNCHANGED <<sqsVars, loggerVars, errVars>>
    /\ UNCHANGED <<producer, workload>>

\* metrics.go:86  flush: m.lock.Lock()
flushLock(p) ==
    /\ frame[p].pc = "lock"
    /\ lock = "free"
    /\ lock' = p
    /\ frame' = [frame EXCEPT ![p].pc = "copy"]
    /\ UNCHANGED <<inputChan, data, run, collector, writer, shut, sink, sent,
                   appended, sentBefore>>
    /\ UNCHANGED <<sqsVars, loggerVars, errVars>>
    /\ UNCHANGED <<producer, workload>>

\* a flush that leaves m.data as it is
Uncleared(d) == d

\* metrics.go:93  clear(m.data)
Cleared(d) == EmptyData

\* metrics.go:87-93  flush: copy every namespace of m.data, then clear it
flushCopy(p) ==
    /\ frame[p].pc = "copy"
    /\ frame' = [frame EXCEPT ![p].pc = "unlock", ![p].mapCopy = data]
    /\ data' = Cleared(data)
    /\ UNCHANGED <<inputChan, lock, run, collector, writer, shut, sink, sent,
                   appended, sentBefore>>
    /\ UNCHANGED <<sqsVars, loggerVars, errVars>>
    /\ UNCHANGED <<producer, workload>>

\* a sink loop that visits every namespace, buffered or not
FoundEvery(mapCopy) == Namespaces

\* a sink loop that stops after the first namespace of mapCopy
FoundFirst(mapCopy) ==
    IF mapCopy["foo"] # <<>> THEN {"foo"}
    ELSE {ns \in Namespaces : mapCopy[ns] # <<>>}

\* the namespaces the sink loop of a flush iterates over
Found(mapCopy) == {ns \in Namespaces : mapCopy[ns] # <<>>}

\* metrics.go:94-98  flush: m.lock.Unlock(); return if nothing was found
flushUnlock(p) ==
    /\ frame[p].pc = "unlock"
    /\ lock' = "free"
    /\ frame' = [frame EXCEPT
                   ![p].pc = IF Found(frame[p].mapCopy) = {} THEN "done" ELSE "put",
                   ![p].todo = Found(frame[p].mapCopy)]
    /\ UNCHANGED <<inputChan, data, run, collector, writer, shut, sink, sent,
                   appended, sentBefore>>
    /\ UNCHANGED <<sqsVars, loggerVars, errVars>>
    /\ UNCHANGED <<producer, workload>>

\* a sink loop that gives up at the first failed call
RemainingStopOnError(todo, ns, err) == IF err THEN {} ELSE todo \ {ns}

\* metrics.go:100-110  the namespaces the loop over mapCopy still has to visit
\* after the call for ns: the error is logged and the loop goes on
Remaining(todo, ns, err) == todo \ {ns}

\* metrics.go:100-110  flush: one iteration of the loop over mapCopy, a
\* PutMetricData call that succeeds or returns an error (which is only logged)
flushPut(p, ns, err) ==
    /\ frame[p].pc = "put"
    /\ ns \in frame[p].todo
    /\ err => Cardinality({k \in 1..Len(sink) : sink[k].err}) < MaxSinkErrors
    /\ LET call == [Namespace |-> ns, MetricData |-> frame[p].mapCopy[ns],
                    err |-> err, by |-> p]
       IN  /\ sink' = Append(sink, call)
           /\ frame' = [frame EXCEPT
                          ![p].todo = Remaining(@, ns, err),
                          ![p].pc = IF Remaining(frame[p].todo, ns, err) = {}
                                      THEN "done" ELSE "put"]
    /\ UNCHANGED <<inputChan, data, lock, run, collector, writer, shut, sent,
                   appended, sentBefore>>
    /\ UNCHANGED <<sqsVars, loggerVars, errVars>>
    /\ UNCHANGED <<producer, workload>>

\* metrics.go:79  the writer's flush() returned: back to the loop test
writerLoop ==
    /\ writer = "flush"
    /\ frame["writer"].pc = "done"
    /\ writer' = IF run THEN "sleep" ELSE "exited"
    /\ frame' = [frame EXCEPT !["writer"] = NoFrame]
    /\ UNCHANGED <<inputChan, data, lock, run, collector, shut, sink, sent,
                   appended, sentBefore>>
    /\ UNCHANGED <<sqsVars, loggerVars, errVars>>
    /\ UNCHANGED <<producer, workload>>

\* metrics.go:36-37  Shutdown's flush() returned: Shutdown returns
ShutdownReturn ==
    /\ shut = "flush"
    /\ frame["shutdown"].pc = "done"
    /\ shut' = "returned"
    /\ UNCHANGED <<inputChan, data, lock, run, collector, writer, frame, sink,
                   sent, appended, sentBefore>>
    /\ UNCHANGED <<sqsVars, loggerVars, errVars>>
    /\ UNCHANGED <<producer, workload>>

\* ------------------------------------------------------------ metrics claims
Ids == 1..Len(sent)
IdsOf(list) == {list[k].MetricName : k \in 1..Len(list)}
SinkCallsWith(id) == {k \in 1..Len(sink) : id \in IdsOf(sink[k].MetricData)}
SinkCallsFor(ns) == {k \in 1..Len(sink) : sink[k].Namespace = ns}
SentFor(ns) == {id \in Ids : sent[id] = ns}

\* the namespaces whose copied list a flush still has to pass to the sink
Pending(p) ==
    CASE frame[p].pc = "unlock" -> {ns \in Namespaces : frame[p].mapCopy[ns] # <<>>}
      [] frame[p].pc = "put" -> frame[p].todo
      [] OTHER -> {}

\* the measurements a flush has copied and still has to pass to the sink
PendingData(p) ==
    (IF "foo" \in Pending(p) THEN frame[p].mapCopy["foo"] ELSE <<>>)
      \o (IF "bar" \in Pending(p) THEN frame[p].mapCopy["bar"] ELSE <<>>)

\* the measurements in the buffer or waiting in a flush
Held ==
    data["foo"] \o data["bar"] \o PendingData("writer") \o PendingData("shutdown")

\* the measurements of the first k sink calls
RECURSIVE SinkData(_)
SinkData(k) == IF k = 0 THEN <<>> ELSE SinkData(k - 1) \o sink[k].MetricData

\* every place a measurement can be in, one entry per occurrence
Everywhere == Held \o SinkData(Len(sink))

\* C7 (as claimed): every measurement whose send completed before Shutdown
\* was called has been passed to the sink exactly once when Shutdown returns.
C7_ShutdownDrains ==
    shut = "returned" =>
      \A id \in 1..sentBefore : Cardinality(SinkCallsWith(id)) = 1

\* C8 (as claimed): after m1..mk were sent on the input channel for one
\* namespace, a flush that is called then ends with exactly one sink call for
\* that namespace holding all k measurements, and with an empty buffer.
C8_SubmitThenFlush ==
    \A p \in Flushers : \A ns \in Namespaces :
      ( /\ frame[p].pc = "done"
        /\ ~frame[p].sentSince
        /\ Len(sent) >= 1
        /\ SentFor(ns) = Ids )
      => /\ Cardinality(SinkCallsFor(ns)) = 1
         /\ \A k \in SinkCallsFor(ns) : IdsOf(sink[k].MetricData) = Ids
         /\ data = EmptyData

\* C8 (amended): once the collector has appended m1..mk of namespace N to the
\* buffer and they are all in it when a flush copies and clears it, that flush
\* makes exactly one sink call for N, holding all k measurements in order, and
\* the buffer is empty right after the copy-and-clear step.
C8_FlushSendsBuffered ==
    \A p \in Flushers :
      /\ frame[p].pc = "unlock" => data = EmptyData
      /\ \A ns \in Namespaces :
           ( /\ frame[p].pc = "done"
             /\ SentFor(ns) # {}
             /\ IdsOf(frame[p].mapCopy[ns]) = SentFor(ns) )
           => /\ Cardinality(SinkCallsFor(ns)) = 1
              /\ \A k \in SinkCallsFor(ns) :
                   /\ sink[k].MetricData = frame[p].mapCopy[ns]
                   /\ sink[k].by = p
                   /\ IdsOf(sink[k].MetricData) = SentFor(ns)

C8_Witness ==
    \E p \in Flushers : \E ns \in Namespaces :
      /\ frame[p].pc = "done"
      /\ Cardinality(SentFor(ns)) >= 2
      /\ IdsOf(frame[p].mapCopy[ns]) = SentFor(ns)
      /\ Cardinality(SinkCallsFor(ns)) = 1

\* C9: every measurement the collector has appended is in exactly one place
\* -- the buffer, the copy a flush has still to pass to the sink, or one sink
\* call -- and never in two; nothing else is anywhere; the buffer is touched
\* only by the goroutine that holds the mutex.
C9_NoLossNoDuplicate ==
    /\ IdsOf(Everywhere) = appended
    /\ Len(Everywhere) = Cardinality(appended)
    /\ lock = "collector" <=> collector.pc = "append"
    /\ \A p \in Flushers : lock = p <=> frame[p].pc \in {"copy", "unlock"}

C9_Witness ==
    /\ frame["writer"].pc = "put" /\ frame["shutdown"].pc = "put"
    /\ sink # <<>>
    /\ appended = 1..MaxSubmit

\* C17: the measurements of a failed sink call are dropped -- they are not in
\* the buffer, not waiting in any flush and in no other sink call; the flush
\* still makes the sink call of every namespace it captured; and a failed call
\* stops neither loop: the writer keeps cycling and the collector stops only
\* for Shutdown.
C17_SinkFailureDrops ==
    /\ \A k \in 1..Len(sink) :
         sink[k].err =>
           /\ IdsOf(sink[k].MetricData) \cap IdsOf(Held) = {}
           /\ \A j \in 1..Len(sink) \ {k} :
                IdsOf(sink[j].MetricData) \cap IdsOf(sink[k].MetricData) = {}
    /\ \A p \in Flushers :
         frame[p].pc = "done" =>
           \A ns \in Found(frame[p].mapCopy) :
             \E k \in 1..Len(sink) :
               /\ sink[k].by = p /\ sink[k].Namespace = ns
               /\ sink[k].MetricData = frame[p].mapCopy[ns]
    /\ (\E k \in 1..Len(sink) : sink[k].err) =>
         /\ writer \in {"sleep", "flush"}
         /\ collector.pc = "stopped" => shut \in {"flush", "returned"}

C17_Witness ==
    /\ Len(sink) = 3
    /\ sink[1].err /\ ~sink[2].err /\ ~sink[3].err
    /\ sink[1].by = "writer" /\ sink[2].by = "writer" /\ sink[3].by = "writer"
    /\ sink[1].Namespace # sink[2].Namespace
    /\ IdsOf(sink[1].MetricData) \cup IdsOf(sink[2].MetricData) = {1, 2}
    /\ IdsOf(sink[3].MetricData) = {3}
    /\ shut = "idle"

\* the sink calls of flusher p that hold a measurement of list
CallsOf(p, list) ==
    {k \in 1..Len(sink) :
       sink[k].by = p /\ IdsOf(sink[k].MetricData) \cap IdsOf(list) # {}}

\* C27: one flush makes exactly one sink call for each namespace that has a
\* buffered measurement when the buffer is copied and cleared, holding that
\* namespace's whole list, and none for a namespace without one; a flush that
\* finds the buffer empty makes no sink call.
C27_OneCallPerNamespace ==
    /\ [](/\ \A k \in 1..Len(sink) : sink[k].MetricData # <<>>
          /\ \A p \in Flushers : \A ns \in Namespaces :
               LET list == frame[p].mapCopy[ns]
                   sunk == frame[p].pc = "done"
                             \/ (frame[p].pc = "put" /\ ns \notin frame[p].todo)
               IN  /\ (list # <<>> /\ sunk) =>
                        /\ Cardinality(CallsOf(p, list)) = 1
                        /\ \A k \in CallsOf(p, list) :
                             /\ sink[k].Namespace = ns
                             /\ sink[k].MetricData = list
                   /\ (list # <<>> /\ ~sunk) => CallsOf(p, list) = {})
    /\ [][\A p \in Flushers :
            /\ (frame[p].pc = "copy" /\ frame'[p].pc = "unlock") =>
                 /\ frame'[p].mapCopy = data
                 /\ data' = EmptyData
            /\ (frame[p].pc = "unlock" /\ frame'[p].pc = "done") =>
                 /\ frame[p].mapCopy = EmptyData
                 /\ sink' = sink
            /\ (frame[p].pc = "unlock" /\ frame[p].mapCopy = EmptyData) =>
                 frame'[p].pc \in {"unlock", "done"}]_vars

C27_Witness ==
    /\ frame["writer"].pc = "done"
    /\ Len(frame["writer"].mapCopy["foo"]) = 2
    /\ Len(frame["writer"].mapCopy["bar"]) = 1
    /\ Len(sink) = 2
    /\ sink[1].by = "writer" /\ sink[2].by = "writer"
    /\ sink[1].Namespace # sink[2].Namespace

\* C23 (as claimed): Shutdown tears the aggregator down: once Shutdown has
\* returned the collector has stopped, and no step enters a new flush or makes
\* a sink call.
C23_ShutdownTearsDown ==
    /\ [](shut = "returned" => collector.pc = "stopped")
    /\ [][shut = "returned" =>
            /\ sink' = sink
            /\ \A p \in Flushers :
                 frame'[p].pc = "lock" => frame[p].pc = "lock"]_vars

NextMetrics ==
    \/ Start
    \/ \E ns \in Namespaces : inputChanSend(ns)
    \/ collectorReceive
    \/ collectorPark
    \/ collectorLock
    \/ collectorAppend
    \/ ShutdownCall
    \/ collectorStop
    \/ writerWake
    \/ writerLoop
    \/ ShutdownReturn
    \/ \E p \in Flushers :
         \/ flushLock(p)
         \/ flushCopy(p)
         \/ flushUnlock(p)
         \/ \E ns \in Namespaces, err \in BOOLEAN : flushPut(p, ns, err)

\* no SQS invocation is in progress
InitSQSIdle ==
    /\ hasDeadline = TRUE
    /\ addLoggerParams = FALSE
    /\ records = <<>>
    /\ pc = "entry"
    /\ parentLogger = newStoryLogger
    /\ routines = <<>>
    /\ task = <<>>
    /\ waiter = <<>>
    /\ collected = 0
    /\ failures = <<>>
    /\ response = <<>>
    /\ retErr = "none"
    /\ slog = <<>>
    /\ crashed = FALSE
    /\ subCtx = "none"
    /\ observed = <<>>
    /\ logCalls = <<>>

InitMetrics == InitSQSIdle /\ InitMetricsIdle /\ InitLoggerIdle /\ InitErrIdle

SpecMetrics == InitMetrics /\ [][NextMetrics]_vars

\* ------------------------------------------------------------ sends after Shutdown
\* A producer that keeps sending measurements of one namespace once Shutdown
\* has returned, one more than the channel holds.
InitSend ==
    /\ InitSQSIdle /\ InitLoggerIdle /\ InitErrIdle
    /\ InitAggregator
    /\ workload = [Namespaces |-> {"foo"}, count |-> InputChanCap + 1,
                   afterShutdown |-> TRUE]

NextSend ==
    \/ Start
    \/ \E ns \in Namespaces : inputChanSend(ns)
    \/ collectorPark
    \/ ShutdownCall
    \/ collectorStop
    \/ writerWake
    \/ \E p \in Flushers : flushLock(p) \/ flushCopy(p) \/ flushUnlock(p)
    \/ writerLoop
    \/ ShutdownReturn

\* The scheduler runs every runnable goroutine of the aggregator: the
\* collector, the writer and the flush in progress are weakly fair.  Nothing
\* is assumed of the callers of Start, Shutdown and of the producer.
FairSpecSend ==
    /\ InitSend /\ [][NextSend]_vars
    /\ WF_vars(collectorPark) /\ WF_vars(collectorStop)
    /\ WF_vars(writerWake) /\ WF_vars(writerLoop) /\ WF_vars(ShutdownReturn)
    /\ \A p \in Flushers :
         WF_vars(flushLock(p)) /\ WF_vars(flushCopy(p)) /\ WF_vars(flushUnlock(p))

\* C16 (as claimed): a send on the input channel never blocks the sender
\* forever: in every reachable state of the aggregator a pending send
\* eventually completes.
C16_SendCompletes == (producer.pc = "blocked") ~> (producer.pc = "idle")

\* ------------------------------------------------------------ calls of Shutdown
\* metrics.go:34-36  Shutdown is called again after an earlier call has
\* returned and executes `m.stopChan <- true`: as in the first call, a
\* collector parked in its select takes the value and Shutdown enters
\* flush(); otherwise Shutdown blocks in the send
ShutdownAgain ==
    /\ shut = "returned"
    /\ sentBefore' = Len(sent)
    /\ IF collector.pc = "parked"
         THEN /\ collector' = [collector EXCEPT !.pc = "stopped"]
              /\ shut' = "flush"
              /\ frame' = [frame EXCEPT !["shutdown"] = NewFrame]
         ELSE /\ shut' = "sendstop"
              /\ UNCHANGED <<collector, frame>>
    /\ UNCHANGED <<inputChan, data, lock, run, writer, sink, sent, appended>>
    /\ UNCHANGED <<sqsVars, loggerVars, errVars>>
    /\ UNCHANGED <<producer, workload>>

\* Test_Metrics' producer with Shutdown called at any moment: before or after
\* Start, while measurements arrive, and once more after it has returned.
NextShutdown ==
    \/ NextMetrics
    \/ ShutdownAgain

\* The scheduler runs every runnable goroutine of the aggregator and every
\* sink call returns: the collector, the writer and the flush() calls in
\* progress are weakly fair, and a goroutine waiting in m.lock.Lock() gets the
\* mutex in the end (sync.Mutex hands over to a starving waiter).  Nothing is
\* assumed of the callers of Start, Shutdown and of the producer.
FairSpecShutdown ==
    /\ InitMetrics /\ [][NextShutdown]_vars
    /\ WF_vars(collectorReceive) /\ WF_vars(collectorPark)
    /\ SF_vars(collectorLock) /\ WF_vars(collectorAppend)
    /\ WF_vars(collectorStop)
    /\ WF_vars(writerWake) /\ WF_vars(writerLoop) /\ WF_vars(ShutdownReturn)
    /\ \A p \in Flushers :
         /\ SF_vars(flushLock(p))
         /\ WF_vars(flushCopy(p)) /\ WF_vars(flushUnlock(p))
         /\ WF_vars(\E ns \in Namespaces, err \in BOOLEAN : flushPut(p, ns, err))

\* C32 (as claimed): every call of Shutdown eventually returns, in every
\* reachable state of the aggregator (Start called and measurements arriving,
\* Start never called, Shutdown already called once), and when it has
\* returned its final flush has completed all its sink calls.
C32_ShutdownReturns ==
    /\ (shut = "sendstop") ~> (shut = "returned")
    /\ [](shut = "returned" => frame["shutdown"].pc = "done")

\* ------------------------------------------------------------ IsErrorRetryable
\* the error values with a chain of at most MaxChain errors
Chains ==
    {c \in UNION {[1..n -> ErrorKinds] : n \in 0..MaxChain} :
       \A k \in 1..(Len(c) - 1) : c[k].unwrap}

InitError ==
    /\ InitSQSIdle /\ InitMetricsIdle /\ InitLoggerIdle
    /\ errIn \in Chains
    /\ result = "none"

\* error_test.go:49-54  isRetryableError := IsErrorRetryable(tc.err)
callIsErrorRetryable ==
    /\ result = "none"
    /\ result' = IF IsErrorRetryable(errIn) THEN "true" ELSE "false"
    /\ UNCHANGED errIn
    /\ UNCHANGED <<sqsVars, metricVars, loggerVars>>

NextError == callIsErrorRetryable

SpecError == InitError /\ [][NextError]_vars

\* the positions of the errors of a chain that implement RetryableError
Retryables(c) == {k \in 1..Len(c) : c[k].retryable # "none"}

\* C18: IsErrorRetryable(err) is true exactly when the outermost error of the
\* Unwrap chain that implements RetryableError reports true; it is false for
\* nil, for a chain without a RetryableError, and when that outermost
\* RetryableError reports false, whatever the errors below it report.
C18_FirstRetryableDecides ==
    result # "none" =>
      /\ errIn = <<>> => result = "false"
      /\ Retryables(errIn) = {} => result = "false"
      /\ \A k \in Retryables(errIn) :
           (\A j \in Retryables(errIn) : k <= j) =>
             (result = "true" <=> errIn[k].retryable = "yes")

C18_Witness ==
    /\ result = "false" /\ Len(errIn) = 3
    /\ errIn[1].retryable = "none" /\ errIn[2].retryable = "no"
    /\ errIn[3].retryable = "yes"

\* ------------------------------------------------------------ story logger API
\* A method call on logger l: the logger becomes s2 and the records of out are
\* written, in order, to the slog.Logger every logger of the invocation shares
Call(l, name, s2, out) ==
    /\ ops < MaxOps
    /\ l \in DOMAIN loggers
    /\ loggers' = [loggers EXCEPT ![l] = s2]
    /\ written' = written \o [k \in 1..Len(out) |-> [by |-> l, rec |-> out[k]]]
    /\ errorCalled' = IF name \in {"Error", "Errorf"}
                        THEN [errorCalled EXCEPT ![l] = TRUE]
                        ELSE errorCalled
    /\ lastOp' = [name |-> name, target |-> l]
    /\ ops' = ops + 1
    /\ UNCHANGED <<story, summaryVars>>
    /\ UNCHANGED <<sqsVars, metricVars, errVars>>

\* part_003:21-32  parent.Split(ctx): a new child context and logger
callSplit(c) ==
    /\ ops < MaxOps
    /\ c \in Children \ DOMAIN loggers
    /\ loggers' = loggers @@ (c :> Split(loggers["parent"]))
    /\ errorCalled' = errorCalled @@ (c :> FALSE)
    /\ lastOp' = [name |-> "Split", target |-> c]
    /\ ops' = ops + 1
    /\ UNCHANGED <<written, story, summaryVars>>
    /\ UNCHANGED <<sqsVars, metricVars, errVars>>

callAddStage(l) ==
    l \in DOMAIN loggers /\ Call(l, "AddStage",
                                 AddStage(loggers[l], formatMsgAndArgs("stage", EmptyMap)),
                                 <<>>)

callAddParam(l) ==
    l \in DOMAIN loggers /\ Call(l, "AddParam", AddParam(loggers[l], "key", "value"), <<>>)

callInfo(l, args) ==
    l \in DOMAIN loggers
      /\ Call(l, "Info", Info(loggers[l], "info", args), InfoOut(loggers[l], "info", args))

callInfof(l) ==
    l \in DOMAIN loggers
      /\ Call(l, "Infof", Infof(loggers[l], "infof"), InfoOut(loggers[l], "infof", EmptyMap))

callWarn(l, args) ==
    l \in DOMAIN loggers
      /\ Call(l, "Warn", Warn(loggers[l], "warn", args), WarnOut(loggers[l], "warn", args))

callError(l, args) ==
    l \in DOMAIN loggers
      /\ Call(l, "Error", Error(loggers[l], "error", args), ErrorOut(loggers[l], "error", args))

callErrorf(l) ==
    l \in DOMAIN loggers
      /\ Call(l, "Errorf", Errorf(loggers[l], "errorf"), ErrorOut(loggers[l], "errorf", EmptyMap))

callDebug(l, args) ==
    l \in DOMAIN loggers
      /\ Call(l, "Debug", Debug(loggers[l], "debug", args), DebugOut(loggers[l], "debug", args))

callLog(l) ==
    l \in DOMAIN loggers /\ Call(l, "Log", loggers[l], Log(loggers[l]))

callDisableOutput(l) ==
    l \in DOMAIN loggers /\ Call(l, "disableOutput", disableOutput(loggers[l]), <<>>)

callDisableCombinedMode(l) ==
    l \in DOMAIN loggers
      /\ Call(l, "DisableCombinedMode", DisableCombinedMode(loggers[l]), <<>>)

\* the variadic args of a logging call: none, or one key/value pair
LineArgs == {EmptyMap, ("k" :> "v")}

NextLogger ==
    \/ \E c \in Children : callSplit(c)
    \/ \E l \in LoggerIds :
         \/ callAddStage(l)
         \/ callAddParam(l)
         \/ callInfof(l)
         \/ callErrorf(l)
         \/ callLog(l)
         \/ callDisableOutput(l)
         \/ callDisableCombinedMode(l)
         \/ \E args \in LineArgs :
              \/ callInfo(l, args)
              \/ callWarn(l, args)
              \/ callError(l, args)
              \/ callDebug(l, args)

\* part_003:14-19  the parent context's logger: newStoryLogger, not combined
InitStoryLogger ==
    /\ InitSummaryIdle
    /\ story = NoStory
    /\ loggers = ("parent" :> newStoryLogger)
    /\ written = <<>>
    /\ errorCalled = ("parent" :> FALSE)
    /\ lastOp = [name |-> "none", target |-> "none"]
    /\ ops = 0

InitLogger == InitSQSIdle /\ InitMetricsIdle /\ InitErrIdle /\ InitStoryLogger

SpecLogger == InitLogger /\ [][NextLogger]_vars

\* ------------------------------------------------------------ one task's logger
\* One goroutine drives one logger: the logger of a Split child (combined
\* mode) or a logger as newStoryLogger returns it (not combined).
ParamValues == {"1", "2"}
ParamKeys == {"a", "b"}

\* a call by the task on its logger; g is the history after the call
TaskCall(l, name, s2, out, g) ==
    /\ ops < MaxOps
    /\ l \in DOMAIN loggers
    /\ loggers' = [loggers EXCEPT ![l] = s2]
    /\ written' = written \o [k \in 1..Len(out) |-> [by |-> l, rec |-> out[k]]]
    /\ errorCalled' = IF name = "Error"
                        THEN [errorCalled EXCEPT ![l] = TRUE]
                        ELSE errorCalled
    /\ lastOp' = [name |-> name, target |-> l]
    /\ ops' = ops + 1
    /\ story' = g
    /\ UNCHANGED summaryVars
    /\ UNCHANGED <<sqsVars, metricVars, errVars>>

\* the history after a line msg was logged with args
Logged(msg, args) ==
    [story EXCEPT !.stages = Append(@, msg),
                  !.line = MapSet(story.pending, args),
                  !.pending = EmptyMap]

taskAddStage(l) ==
    l \in DOMAIN loggers
      /\ TaskCall(l, "AddStage",
                  AddStage(loggers[l], formatMsgAndArgs("stage", EmptyMap)), <<>>,
                  [story EXCEPT !.stages = Append(@, "stage")])

taskAddParam(l, v) ==
    l \in DOMAIN loggers
      /\ TaskCall(l, "AddParam", AddParam(loggers[l], "a", v), <<>>,
                  [story EXCEPT !.params = MapSet(@, ("a" :> v))])

taskWith(l, k) ==
    l \in DOMAIN loggers
      /\ TaskCall(l, "With", With(loggers[l], (k :> "w")), <<>>,
                  [story EXCEPT !.params = MapSet(@, (k :> "w"))])

taskWithLineParams(l) ==
    l \in DOMAIN loggers
      /\ TaskCall(l, "WithLineParams", WithLineParams(loggers[l], ("p" :> "q")),
                  <<>>, [story EXCEPT !.pending = MapSet(@, ("p" :> "q"))])

taskInfo(l, args) ==
    l \in DOMAIN loggers
      /\ TaskCall(l, "Info", Info(loggers[l], "info", args),
                  InfoOut(loggers[l], "info", args), Logged("info", args))

taskWarn(l, args) ==
    l \in DOMAIN loggers
      /\ TaskCall(l, "Warn", Warn(loggers[l], "warn", args),
                  WarnOut(loggers[l], "warn", args), Logged("warn", args))

taskError(l, args) ==
    l \in DOMAIN loggers
      /\ TaskCall(l, "Error", Error(loggers[l], "error", args),
                  ErrorOut(loggers[l], "error", args), Logged("error", args))

taskLog(l) ==
    l \in DOMAIN loggers
      /\ TaskCall(l, "Log", loggers[l], Log(loggers[l]), story)

NextTask ==
    \E l \in LoggerIds :
      \/ taskAddStage(l)
      \/ \E v \in ParamValues : taskAddParam(l, v)
      \/ \E k \in ParamKeys : taskWith(l, k)
      \/ taskWithLineParams(l)
      \/ taskLog(l)
      \/ \E args \in LineArgs :
           \/ taskInfo(l, args)
           \/ taskWarn(l, args)
           \/ taskError(l, args)

\* part_003:14-32  the task's logger: a Split child or a new story logger
InitTaskLogger ==
    /\ \E l \in {"parent", "c1"} :
         /\ loggers = (l :> IF l = "c1" THEN Split(newStoryLogger)
                                        ELSE newStoryLogger)
         /\ errorCalled = (l :> FALSE)
    /\ written = <<>>
    /\ lastOp = [name |-> "none", target |-> "none"]
    /\ ops = 0
    /\ story = NoStory
    /\ InitSummaryIdle

InitTask == InitSQSIdle /\ InitMetricsIdle /\ InitErrIdle /\ InitTaskLogger

SpecTask == InitTask /\ [][NextTask]_vars

\* ------------------------------------------------------------ the summary of Log()
\* A Go string is its bytes.  "a" is a one-byte character; "L" and "T" are the
\* lead and the trail byte of a two-byte character (such as U+00E9).
Ascii(n) == [i \in 1..n |-> "a"]

Wide(n) == [i \in 1..(2 * n) |-> IF i % 2 = 1 THEN "L" ELSE "T"]

\* the number of characters among the first k bytes of a string
CharactersBefore(str, k) == Cardinality({j \in 1..k : str[j] # "T"})

\* the number of characters of a string
Characters(str) == CharactersBefore(str, Len(str))

\* sqs_test.go:251  strings.Join(s.stages, "; ")
RECURSIVE Join(_)
Join(stages) ==
    IF stages = <<>> THEN <<>>
    ELSE IF Len(stages) = 1 THEN stages[1]
    ELSE stages[1] \o <<";", " ">> \o Join(Tail(stages))

\* sqs_test.go:251-254  the description Log() logs: len() counts bytes and
\* description[:100] keeps the first 100 bytes
Summary(stages) ==
    LET d == Join(stages) IN
      IF Len(d) > SummaryMax
        THEN SubSeq(d, 1, SummaryMax) \o <<".", ".", ".">>
        ELSE d

\* stage descriptions around the limit: short, 49 and 50 bytes (two of 49
\* join to exactly 100), longer than the limit, and 60 two-byte characters
Descriptions == {Ascii(3), Ascii(49), Ascii(50), Ascii(101), Wide(60)}

InitSummary ==
    /\ InitSQSIdle /\ InitMetricsIdle /\ InitErrIdle
    /\ loggers = <<>>
    /\ written = <<>>
    /\ errorCalled = <<>>
    /\ lastOp = [name |-> "none", target |-> "none"]
    /\ ops = 0
    /\ story = NoStory
    /\ \E n \in 1..MaxStages : stagesIn \in [1..n -> Descriptions]
    /\ summary = [done |-> FALSE, text |-> <<>>]

\* sqs_test.go:248-260  Log() on a logger that holds stagesIn
logSummary ==
    /\ ~summary.done
    /\ summary' = [done |-> TRUE, text |-> Summary(stagesIn)]
    /\ UNCHANGED <<loggers, written, errorCalled, lastOp, ops, story, stagesIn>>
    /\ UNCHANGED <<sqsVars, metricVars, errVars>>

NextSummary == logSummary

SpecSummary == InitSummary /\ [][NextSummary]_vars

\* ------------------------------------------------------------ story logger claims
\* the combined records logger l has written
CombinedBy(l) == {k \in 1..Len(written) : written[k].by = l /\ written[k].rec.combined}

\* C11 (as claimed): whatever sequence of AddStage/AddParam/Info/Warn/Error and
\* Log() calls is made on a logger, it emits at most one combined record in
\* total; a second Log() does not emit the accumulated stages and params again.
C11_AtMostOneCombined ==
    \A l \in DOMAIN loggers : Cardinality(CombinedBy(l)) <= 1

\* C12 (as claimed): once disableOutput() has been called on a logger, no later
\* call on it (Log, Info, Infof, Warn, Error, Errorf, Debug), in combined mode
\* or not, writes a record to the underlying slog sink.
C12_DisabledNeverWrites ==
    [][\A l \in DOMAIN loggers :
         loggers[l].disabled =>
           \A k \in (Len(written) + 1)..Len(written') : written'[k].by # l]_vars

\* C20: the logger of a child made by Split starts with empty stages and
\* params, no error level and not disabled, whatever the parent's logger
\* holds; every logger writes to the one shared sink; and a call on one logger
\* leaves every other logger of the invocation -- the parent and the siblings
\* -- unchanged.
C20_SplitIndependent ==
    /\ [](lastOp.name = "Split" =>
            LET child == loggers[lastOp.target] IN
              /\ child.stages = <<>>
              /\ DOMAIN child.params = {} /\ DOMAIN child.lineParams = {}
              /\ ~child.errorLevel /\ ~child.disabled
              /\ child.combinedMode)
    /\ [][/\ \A l \in DOMAIN loggers :
               loggers'[l] # loggers[l] => lastOp'.target = l
           /\ \A k \in (Len(written) + 1)..Len(written') :
               written'[k].by = lastOp'.target]_vars

C20_Witness ==
    /\ DOMAIN loggers = LoggerIds
    /\ loggers["parent"].disabled
    /\ loggers["c1"].errorLevel /\ Len(loggers["c1"].stages) = 1
    /\ loggers["c2"] = Split(loggers["parent"])

\* the messages of a list of stages
Msgs(stages) == [k \in 1..Len(stages) |-> stages[k].msg]

\* C26: for a combined-mode logger driven by one task, a Log() call emits the
\* record of what was accumulated: its stages are the AddStage/Info/Warn/Error
\* calls in call order, each once, and its params hold every key set by
\* AddParam/With with the value written last (nothing is emitted when there is
\* neither a stage nor a param).
C26_StoryPreserved ==
    [][(lastOp'.name = "Log" /\ loggers[lastOp'.target].combinedMode) =>
         IF story.stages = <<>> /\ DOMAIN story.params = {}
           THEN written' = written
           ELSE /\ Len(written') = Len(written) + 1
                /\ LET rec == written'[Len(written')].rec IN
                     /\ rec.combined
                     /\ Msgs(rec.stages) = story.stages
                     /\ rec.params = story.params]_vars

C26_Witness ==
    /\ lastOp = [name |-> "Log", target |-> "c1"]
    /\ Len(written) = 1
    /\ Msgs(written[1].rec.stages) = <<"info", "error">>
    /\ written[1].rec.params = ("a" :> "2")

\* the key/value pairs on the line the last Info/Warn/Error call on l logged:
\* the line is the last stage of a combined-mode logger, and the last record
\* written otherwise
LineCarried(l) ==
    IF loggers[l].combinedMode
      THEN loggers[l].stages[Len(loggers[l].stages)].args
      ELSE written[Len(written)].rec.msg.args

\* C28 (as claimed): the pairs added with WithLineParams are on the next line
\* logged on that logger with Info, Warn or Error, after the line's own pairs,
\* and on no later line: once that line is logged no line params are pending.
C28_LineParamsOnNextLine ==
    \A l \in DOMAIN loggers :
      (lastOp.target = l /\ lastOp.name \in {"Info", "Warn", "Error"}) =>
        /\ LineCarried(l) = story.line
        /\ loggers[l].lineParams = EmptyMap

\* the first n characters of a string
FirstCharacters(str, n) ==
    IF Characters(str) <= n THEN str
    ELSE LET next == CHOOSE k \in 1..Len(str) :
                       str[k] # "T" /\ CharactersBefore(str, k - 1) = n
         IN  SubSeq(str, 1, next - 1)

\* C29 (as claimed): the summary of a combined record is the stage
\* descriptions joined with "; " when that string has at most 100 characters,
\* and otherwise its first 100 characters followed by "..."; it is never
\* longer than 103 characters.
C29_SummaryTruncated ==
    summary.done =>
      LET d == Join(stagesIn) IN
        /\ Characters(d) <= 100 => summary.text = d
        /\ Characters(d) > 100 =>
             summary.text = FirstCharacters(d, 100) \o <<".", ".", ".">>
        /\ Characters(summary.text) <= 103

====
